---------------------------- MODULE Spec2Model ----------------------------
(***************************************************************************)
(* Siren controller (src/app.py): the playback state (current_mode_idx,    *)
(* play_proc, running, the LED), the two locks, the looping aplay          *)
(* processes, the custom asset file and the uploads directory, driven by   *)
(* concurrent callers of start_siren, stop_siren, toggle_siren, next_mode, *)
(* upload_audio and announce.  Every caller is a thread (a Flask request   *)
(* thread or a button callback); a step of a thread is one stretch of its  *)
(* code between two points where another thread can interleave.  The end   *)
(* of the controller process is a step too, and make_pattern_wav, the      *)
(* synthesizer of the built-in assets, is run on its own on any pattern.   *)
(***************************************************************************)
EXTENDS Integers, Sequences, FiniteSets, TLC

\* ----- bounds of the model -----
\* Calls (requests and button presses) issued in one behaviour: of concurrent
\* callers, and of callers that take turns.
MaxCalls == 3
MaxTurns == 5

\* The concurrent callers: the thread that runs the two buttons' when_pressed
\* callbacks, and Flask's request threads (threaded=True).
Buttons == {"button"}
Requests == {"http1", "http2"}
Threads == Buttons \cup Requests

\* ----- program constants -----
MODE_NAMES == <<"flood", "earthquake", "custom">>
MODE_TO_FILE == [flood |-> "flood.wav", earthquake |-> "earthquake.wav", custom |-> "custom.wav"]

\* File names a client can send with an upload: no dot, a .wav extension, a
\* trailing dot.  A name is the sequence of
\* its dot-separated pieces as name.split(".") returns them.
FileNames == { <<"clip">>, <<"clip", "wav">>, <<"clip", "">> }
\* request.files.get("file") is None.
NoFile == <<>>

\* Contents of custom.wav.
Absent == [kind |-> "absent", id |-> 0]
Placeholder == [kind |-> "placeholder", id |-> 0]
Partial == [kind |-> "partial", id |-> 0]
Uploaded(n) == [kind |-> "upload", id |-> n]

\* play_proc = None.
None == [pid |-> 0, wav |-> "none"]
\* No path (a local not yet assigned).
NoPath == [prefix |-> "none", suffix |-> "none"]

VARIABLES
  current_mode_idx,  \* index into MODE_NAMES, 0-based as in the code
  play_proc,         \* the Popen handle of the looping player, or None
  running,
  led,               \* the status LED
  state_lock,        \* holder of state_lock, or "free"
  announce_lock,     \* holder of announce_lock, or "free"
  live,              \* the looping aplay processes that are alive
  oneshot,           \* threads whose blocking aplay (play_once_wav) is playing
  custom_wav,        \* content of CUSTOM_WAV
  uploads,           \* paths that exist in UPLOADS_DIR
  calls,             \* calls issued so far
  pc,                \* per thread: where it is in its code
  ret,               \* per thread: where to continue after start_siren / stop_siren returns
  loc,               \* per thread: the call's locals
  pre,               \* per thread, when callers take turns: the state its call began in
  serial,            \* the callers take turns: a call begins when no other is in flight
  noting,            \* announce() notes the mode of the loop it pauses (loc[t].paused)
  synth              \* the run of make_pattern_wav: its argument, locals and output

vars == <<current_mode_idx, play_proc, running, led, state_lock, announce_lock,
          live, oneshot, custom_wav, uploads, calls, pc, ret, loc, pre, serial, noting,
          synth>>

\* ----- locals of a call -----
\* Besides the code's locals: op (the operation called), pending (what a try
\* block left for after its finally block), result (how the call ended),
\* spawned (the call started a looping player), stopped (what its
\* stop_siren() did: "noop", "killed" a live player, or found it "gone") and
\* paused (the m of the Looping(m) announce() found when it read running,
\* noted when `noting` is set).
NoLocals == [op |-> "none", idx |-> 0, was_running |-> FALSE, ok |-> FALSE,
             src |-> NoPath, wav |-> NoPath, pending |-> "none", result |-> "none",
             spawned |-> FALSE, stopped |-> "none", paused |-> "none"]

NoPre == [running |-> FALSE, play_proc |-> None, idx |-> 0, custom |-> Placeholder]

\* No make_pattern_wav call in progress.
NoSynth == [pc |-> "none", pattern |-> <<>>, frames |-> 0, k |-> 0, n |-> 0, i |-> 0,
            file |-> [nchannels |-> 0, sampwidth |-> 0, framerate |-> 0, nframes |-> 0]]

\* ----- pure helpers -----
\* current_mode()
current_mode(idx) == MODE_NAMES[idx + 1]

\* wav_for_mode(mode): the asset file of a mode.
wav_for_mode(mode) == MODE_TO_FILE[mode]

\* "." + (name.split(".")[-1] if "." in name else "webm"), without the dot.
ExtOf(name) == IF Len(name) > 1 THEN name[Len(name)] ELSE "webm"

\* Path.with_suffix raises ValueError for the suffix ".".
ValidSuffix(ext) == ext # ""

\* tmp.with_suffix(ext) for tmp = UPLOADS_DIR / f"{prefix}_{int(time.time())}".
\* The calls of a behaviour fall into one second, the case in which the
\* names of different calls coincide.
TmpPath(prefix, ext) == [prefix |-> prefix, suffix |-> ext]

\* ensure_default_wavs(), as far as custom.wav goes: a missing file becomes
\* the placeholder tone, an existing one is left alone.  (flood.wav and
\* earthquake.wav are written once and never rewritten.)
ensure_default_wavs(c) == IF c = Absent THEN Placeholder ELSE c

\* The playback state: Looping when running is set and play_proc holds a
\* handle, Idle when neither.
Looping == running /\ play_proc # None
Idle == ~running /\ play_proc = None

\* The m of Looping(m): the current mode, when the state is Looping and the
\* loop is playing that mode's asset; "none" otherwise.
LoopingMode ==
  IF Looping /\ play_proc.wav = wav_for_mode(current_mode(current_mode_idx))
    THEN current_mode(current_mode_idx)
    ELSE "none"

Init ==
  /\ current_mode_idx = 0
  /\ play_proc = None
  /\ running = FALSE
  /\ led = FALSE
  /\ state_lock = "free"
  /\ announce_lock = "free"
  /\ live = {}
  /\ oneshot = {}
  /\ custom_wav = Placeholder
  /\ uploads = {}
  /\ calls = 0
  /\ pc = [t \in Threads |-> "idle"]
  /\ ret = [t \in Threads |-> <<>>]
  /\ loc = [t \in Threads |-> NoLocals]
  /\ pre = [t \in Threads |-> NoPre]
  /\ serial = FALSE
  /\ noting = FALSE
  /\ synth = NoSynth


\* ----- identities -----
\* A handle or a file content is told from another one by its number.  A new
\* one gets the least number that nothing still refers to: neither the
\* program's state nor what a call in flight remembers of the state it
\* began in.
PidsInUse == {p.pid : p \in live} \cup {play_proc.pid} \cup {pre[u].play_proc.pid : u \in Threads}
NewPid == CHOOSE n \in 1..(Cardinality(PidsInUse) + 1) :
            /\ n \notin PidsInUse
            /\ \A m \in 1..(n - 1) : m \in PidsInUse
ContentsInUse == {custom_wav.id} \cup {pre[u].custom.id : u \in Threads}
NewContent == CHOOSE n \in 1..(Cardinality(ContentsInUse) + 1) :
                /\ n \notin ContentsInUse
                /\ \A m \in 1..(n - 1) : m \in ContentsInUse

\* ----- calling and returning -----
Others(t) == Threads \ {t}

\* A call begins.  When the callers take turns, every other thread is idle
\* and the state the call starts from is noted.
Begin(t) ==
  /\ pc[t] = "idle"
  /\ calls < (IF serial THEN MaxTurns ELSE MaxCalls)
  /\ calls' = calls + 1
  /\ serial => \A u \in Others(t) : pc[u] = "idle"
  /\ pre' = IF serial
              THEN [pre EXCEPT ![t] = [running |-> running, play_proc |-> play_proc,
                                       idx |-> current_mode_idx, custom |-> custom_wav]]
              ELSE pre
  /\ UNCHANGED serial

\* The locals of a new call; its result is "ok" (a normal return) until the
\* code decides otherwise.
Locals(op) == [NoLocals EXCEPT !.op = op, !.result = "ok"]

\* start_siren() / stop_siren() return to their caller.
ReturnTo(t) ==
  /\ pc' = [pc EXCEPT ![t] = Head(ret[t])]
  /\ ret' = [ret EXCEPT ![t] = Tail(ret[t])]

\* An exception leaves the call: every `with` block on the way out releases
\* its lock (announce() holds announce_lock around its whole body).
Raised(t) ==
  /\ pc' = [pc EXCEPT ![t] = "done"]
  /\ ret' = [ret EXCEPT ![t] = <<>>]
  /\ announce_lock' = IF announce_lock = t THEN "free" ELSE announce_lock

\* ----- start_siren -----
\* start_siren without its `if running: return`.
StartEnter_NoCheck(t) ==
  /\ pc[t] = "start_enter"
  /\ state_lock = "free"
  /\ state_lock' = t
  /\ pc' = [pc EXCEPT ![t] = "start_spawn"]
  /\ UNCHANGED <<synth, noting, current_mode_idx, play_proc, running, led, announce_lock, live, oneshot,
                 custom_wav, uploads, calls, ret, loc, pre, serial>>

\* with state_lock: if running: return
\* The lock is taken and running is read; a call that finds it set returns.
StartEnter(t) ==
  /\ pc[t] = "start_enter"
  /\ state_lock = "free"
  /\ IF running
       THEN /\ ReturnTo(t)
            /\ UNCHANGED state_lock
       ELSE /\ state_lock' = t
            /\ pc' = [pc EXCEPT ![t] = "start_spawn"]
            /\ UNCHANGED ret
  /\ UNCHANGED <<synth, noting, current_mode_idx, play_proc, running, led, announce_lock, live, oneshot,
                 custom_wav, uploads, calls, loc, pre, serial>>

\* start_siren setting running and the LED before it calls Popen.
StartSpawn_RunningFirst(t) ==
  /\ pc[t] = "start_spawn"
  /\ state_lock = t
  /\ custom_wav' = ensure_default_wavs(custom_wav)
  /\ running' = TRUE
  /\ led' = TRUE
  /\ \/ LET p == [pid |-> NewPid, wav |-> wav_for_mode(current_mode(current_mode_idx))]
        IN /\ play_proc' = p
           /\ live' = live \cup {p}
           /\ loc' = [loc EXCEPT ![t].spawned = TRUE]
           /\ pc' = [pc EXCEPT ![t] = "start_finish"]
           /\ UNCHANGED <<state_lock, announce_lock, ret>>
     \/ /\ state_lock' = "free"
        /\ Raised(t)
        /\ loc' = [loc EXCEPT ![t].result = "exception"]
        /\ UNCHANGED <<play_proc, live>>
  /\ UNCHANGED <<synth, noting, current_mode_idx, oneshot, uploads, calls, pre, serial>>

\* start_siren taking the lock with acquire() and no try/finally: Popen's
\* exception leaves start_siren with state_lock held.
StartSpawn_KeepsLock(t) ==
  /\ pc[t] = "start_spawn"
  /\ state_lock = t
  /\ custom_wav' = ensure_default_wavs(custom_wav)
  /\ \/ LET p == [pid |-> NewPid, wav |-> wav_for_mode(current_mode(current_mode_idx))]
        IN /\ play_proc' = p
           /\ live' = live \cup {p}
           /\ loc' = [loc EXCEPT ![t].spawned = TRUE]
           /\ pc' = [pc EXCEPT ![t] = "start_finish"]
           /\ UNCHANGED <<state_lock, announce_lock, ret>>
     \/ /\ Raised(t)
        /\ loc' = [loc EXCEPT ![t].result = "exception"]
        /\ UNCHANGED <<state_lock, play_proc, live>>
  /\ UNCHANGED <<synth, noting, current_mode_idx, running, led, oneshot, uploads, calls, pre, serial>>

\* ensure_default_wavs(); wav = wav_for_mode(current_mode()); play_proc = Popen(...)
\* Popen returns a new process, or raises (aplay missing, fork failed): the
\* exception leaves start_siren through the with block, which releases the lock.
StartSpawn(t) ==
  /\ pc[t] = "start_spawn"
  /\ state_lock = t
  /\ custom_wav' = ensure_default_wavs(custom_wav)
  /\ \/ LET p == [pid |-> NewPid, wav |-> wav_for_mode(current_mode(current_mode_idx))]
        IN /\ play_proc' = p
           /\ live' = live \cup {p}
           /\ loc' = [loc EXCEPT ![t].spawned = TRUE]
           /\ pc' = [pc EXCEPT ![t] = "start_finish"]
           /\ UNCHANGED <<state_lock, announce_lock, ret>>
     \/ /\ state_lock' = "free"
        /\ Raised(t)
        /\ loc' = [loc EXCEPT ![t].result = "exception"]
        /\ UNCHANGED <<play_proc, live>>
  /\ UNCHANGED <<synth, noting, current_mode_idx, running, led, oneshot, uploads, calls, pre, serial>>

\* running = True; led.on(); leave the with block
StartFinish(t) ==
  /\ pc[t] = "start_finish"
  /\ state_lock = t
  /\ running' = TRUE
  /\ led' = TRUE
  /\ state_lock' = "free"
  /\ ReturnTo(t)
  /\ UNCHANGED <<synth, noting, current_mode_idx, play_proc, announce_lock, live, oneshot, custom_wav,
                 uploads, calls, loc, pre, serial>>

\* ----- stop_siren -----
\* with state_lock: if not running: return
StopEnter(t) ==
  /\ pc[t] = "stop_enter"
  /\ state_lock = "free"
  /\ IF ~running
       THEN /\ ReturnTo(t)
            /\ loc' = [loc EXCEPT ![t].stopped = "noop"]
            /\ UNCHANGED state_lock
       ELSE /\ state_lock' = t
            /\ pc' = [pc EXCEPT ![t] = "stop_kill"]
            /\ UNCHANGED <<ret, loc>>
  /\ UNCHANGED <<synth, noting, current_mode_idx, play_proc, running, led, announce_lock, live, oneshot,
                 custom_wav, uploads, calls, pre, serial>>

\* stop_siren without the try/except around killpg: the error of a player
\* that is gone leaves stop_siren.
StopKill_Raises(t) ==
  /\ pc[t] = "stop_kill"
  /\ state_lock = t
  /\ IF play_proc \in live
       THEN /\ live' = live \ {play_proc}
            /\ loc' = [loc EXCEPT ![t].stopped = "killed"]
            /\ play_proc' = None
            /\ pc' = [pc EXCEPT ![t] = "stop_finish"]
            /\ UNCHANGED <<state_lock, announce_lock, ret>>
       ELSE /\ state_lock' = "free"
            /\ Raised(t)
            /\ loc' = [loc EXCEPT ![t].stopped = "gone", ![t].result = "exception"]
            /\ UNCHANGED <<live, play_proc>>
  /\ UNCHANGED <<synth, noting, current_mode_idx, running, led, oneshot, custom_wav, uploads, calls,
                 pre, serial>>

\* try: os.killpg(os.getpgid(play_proc.pid), SIGTERM) except Exception: pass
\* play_proc = None
\* killpg ends the process group of a live player; for a player that is gone
\* it raises, and the error is swallowed.
StopKill(t) ==
  /\ pc[t] = "stop_kill"
  /\ state_lock = t
  /\ live' = live \ {play_proc}
  /\ loc' = [loc EXCEPT ![t].stopped = IF play_proc \in live THEN "killed" ELSE "gone"]
  /\ play_proc' = None
  /\ pc' = [pc EXCEPT ![t] = "stop_finish"]
  /\ UNCHANGED <<synth, noting, current_mode_idx, running, led, state_lock, announce_lock, oneshot,
                 custom_wav, uploads, calls, ret, pre, serial>>

\* stop_siren without its led.off().
StopFinish_LedStaysOn(t) ==
  /\ pc[t] = "stop_finish"
  /\ state_lock = t
  /\ running' = FALSE
  /\ state_lock' = "free"
  /\ ReturnTo(t)
  /\ UNCHANGED <<synth, noting, current_mode_idx, play_proc, led, announce_lock, live, oneshot,
                 custom_wav, uploads, calls, loc, pre, serial>>

\* running = False; led.off(); leave the with block
StopFinish(t) ==
  /\ pc[t] = "stop_finish"
  /\ state_lock = t
  /\ running' = FALSE
  /\ led' = FALSE
  /\ state_lock' = "free"
  /\ ReturnTo(t)
  /\ UNCHANGED <<synth, noting, current_mode_idx, play_proc, announce_lock, live, oneshot, custom_wav,
                 uploads, calls, loc, pre, serial>>

\* ----- the control operations -----
\* POST /api/start: start_siren()
CallStart(t) ==
  /\ t \in Requests
  /\ Begin(t)
  /\ loc' = [loc EXCEPT ![t] = Locals("start")]
  /\ pc' = [pc EXCEPT ![t] = "start_enter"]
  /\ ret' = [ret EXCEPT ![t] = <<"done">>]
  /\ UNCHANGED <<synth, noting, current_mode_idx, play_proc, running, led, state_lock, announce_lock,
                 live, oneshot, custom_wav, uploads>>

\* POST /api/stop: stop_siren()
CallStop(t) ==
  /\ t \in Requests
  /\ Begin(t)
  /\ loc' = [loc EXCEPT ![t] = Locals("stop")]
  /\ pc' = [pc EXCEPT ![t] = "stop_enter"]
  /\ ret' = [ret EXCEPT ![t] = <<"done">>]
  /\ UNCHANGED <<synth, noting, current_mode_idx, play_proc, running, led, state_lock, announce_lock,
                 live, oneshot, custom_wav, uploads>>

\* button_start.when_pressed: toggle_siren():
\*   start_siren() if not running else stop_siren()
\* running is read without the lock, then the chosen function is called.
toggle_siren(t) ==
  /\ t \in Buttons
  /\ Begin(t)
  /\ loc' = [loc EXCEPT ![t] = [Locals("toggle") EXCEPT !.was_running = running]]
  /\ pc' = [pc EXCEPT ![t] = IF ~running THEN "start_enter" ELSE "stop_enter"]
  /\ ret' = [ret EXCEPT ![t] = <<"done">>]
  /\ UNCHANGED <<synth, noting, current_mode_idx, play_proc, running, led, state_lock, announce_lock,
                 live, oneshot, custom_wav, uploads>>

\* button_mode.when_pressed or POST /api/next_mode: next_mode(), the load of
\* current_mode_idx in
\* current_mode_idx = (current_mode_idx + 1) % len(MODE_NAMES)
next_mode(t) ==
  /\ Begin(t)
  /\ loc' = [loc EXCEPT ![t] = [Locals("next_mode") EXCEPT !.idx = current_mode_idx]]
  /\ pc' = [pc EXCEPT ![t] = "nm_store"]
  /\ UNCHANGED <<synth, noting, current_mode_idx, play_proc, running, led, state_lock, announce_lock,
                 live, oneshot, custom_wav, uploads, ret>>

\* next_mode(), the store of current_mode_idx
NextModeStore(t) ==
  /\ pc[t] = "nm_store"
  /\ current_mode_idx' = (loc[t].idx + 1) % Len(MODE_NAMES)
  /\ pc' = [pc EXCEPT ![t] = "nm_check"]
  /\ UNCHANGED <<synth, noting, play_proc, running, led, state_lock, announce_lock, live, oneshot,
                 custom_wav, uploads, calls, ret, loc, pre, serial>>

\* next_mode stopping the loop and not starting it again.
NextModeCheck_StopOnly(t) ==
  /\ pc[t] = "nm_check"
  /\ loc' = [loc EXCEPT ![t].was_running = running]
  /\ IF running
       THEN /\ pc' = [pc EXCEPT ![t] = "stop_enter"]
            /\ ret' = [ret EXCEPT ![t] = <<"done">>]
       ELSE /\ pc' = [pc EXCEPT ![t] = "done"]
            /\ UNCHANGED ret
  /\ UNCHANGED <<synth, noting, current_mode_idx, play_proc, running, led, state_lock, announce_lock,
                 live, oneshot, custom_wav, uploads, calls, pre, serial>>

\* next_mode(): if running: stop_siren(); time.sleep(0.15); start_siren()
NextModeCheck(t) ==
  /\ pc[t] = "nm_check"
  /\ loc' = [loc EXCEPT ![t].was_running = running]
  /\ IF running
       THEN /\ pc' = [pc EXCEPT ![t] = "stop_enter"]
            /\ ret' = [ret EXCEPT ![t] = <<"start_enter", "done">>]
       ELSE /\ pc' = [pc EXCEPT ![t] = "done"]
            /\ UNCHANGED ret
  /\ UNCHANGED <<synth, noting, current_mode_idx, play_proc, running, led, state_lock, announce_lock,
                 live, oneshot, custom_wav, uploads, calls, pre, serial>>

\* The response is sent (the callback is over): the thread is free for the
\* next call.
Finish(t) ==
  /\ pc[t] = "done"
  /\ pc' = [pc EXCEPT ![t] = "idle"]
  /\ loc' = [loc EXCEPT ![t] = NoLocals]
  /\ pre' = [pre EXCEPT ![t] = NoPre]
  /\ UNCHANGED <<synth, noting, current_mode_idx, play_proc, running, led, state_lock, announce_lock,
                 live, oneshot, custom_wav, uploads, calls, ret, serial>>

\* ----- upload_audio -----
\* f = request.files.get("file"); tmp, name, ext, src; f.save(str(src))
upload_audio(t, name) ==
  /\ t \in Requests
  /\ Begin(t)
  /\ IF name = NoFile
       THEN /\ loc' = [loc EXCEPT ![t] = [Locals("upload") EXCEPT !.result = "error400"]]
            /\ pc' = [pc EXCEPT ![t] = "done"]
            /\ UNCHANGED uploads
       ELSE IF ~ValidSuffix(ExtOf(name))
         THEN \* tmp.with_suffix(ext) raises ValueError
              /\ loc' = [loc EXCEPT ![t] = [Locals("upload") EXCEPT !.result = "exception"]]
              /\ pc' = [pc EXCEPT ![t] = "done"]
              /\ UNCHANGED uploads
         ELSE LET src == TmpPath("upload", ExtOf(name))
              IN /\ uploads' = uploads \cup {src}
                 /\ loc' = [loc EXCEPT ![t] = [Locals("upload") EXCEPT !.src = src]]
                 /\ pc' = [pc EXCEPT ![t] = "up_convert"]
  /\ UNCHANGED <<synth, noting, current_mode_idx, play_proc, running, led, state_lock, announce_lock,
                 live, oneshot, custom_wav, ret>>

\* ok = convert_to_wav(src, CUSTOM_WAV): ffmpeg -y -i src ... custom.wav starts.
\* It exits non-zero before it touches the output when the input is missing
\* or unreadable; otherwise it opens custom.wav for writing, truncating it.
UploadConvert(t) ==
  /\ pc[t] = "up_convert"
  /\ \/ /\ loc[t].src \in uploads
        /\ custom_wav' = Partial
        /\ pc' = [pc EXCEPT ![t] = "up_ffmpeg"]
        /\ UNCHANGED loc
     \/ /\ loc' = [loc EXCEPT ![t].ok = FALSE]
        /\ pc' = [pc EXCEPT ![t] = "up_unlink"]
        /\ UNCHANGED custom_wav
  /\ UNCHANGED <<synth, noting, current_mode_idx, play_proc, running, led, state_lock, announce_lock,
                 live, oneshot, uploads, calls, ret, pre, serial>>

\* ffmpeg ends: exit 0 with custom.wav written in full, or non-zero with
\* custom.wav left as far as it was written.
UploadFfmpegExit(t) ==
  /\ pc[t] = "up_ffmpeg"
  /\ \/ /\ custom_wav' = Uploaded(NewContent)
        /\ loc' = [loc EXCEPT ![t].ok = TRUE]
     \/ /\ loc' = [loc EXCEPT ![t].ok = FALSE]
        /\ UNCHANGED custom_wav
  /\ pc' = [pc EXCEPT ![t] = "up_unlink"]
  /\ UNCHANGED <<synth, noting, current_mode_idx, play_proc, running, led, state_lock, announce_lock,
                 live, oneshot, uploads, calls, ret, pre, serial>>

\* upload_audio restarting the loop whenever one is running, whatever its mode.
UploadFinish_AnyMode(t) ==
  /\ pc[t] = "up_unlink"
  /\ uploads' = uploads \ {loc[t].src}
  /\ IF ~loc[t].ok
       THEN /\ loc' = [loc EXCEPT ![t].result = "error500"]
            /\ pc' = [pc EXCEPT ![t] = "done"]
            /\ UNCHANGED ret
       ELSE /\ loc' = [loc EXCEPT ![t].was_running = running]
            /\ IF running
                 THEN /\ pc' = [pc EXCEPT ![t] = "stop_enter"]
                      /\ ret' = [ret EXCEPT ![t] = <<"start_enter", "done">>]
                 ELSE /\ pc' = [pc EXCEPT ![t] = "done"]
                      /\ UNCHANGED ret
  /\ UNCHANGED <<synth, noting, current_mode_idx, play_proc, running, led, state_lock, announce_lock,
                 live, oneshot, custom_wav, calls, pre, serial>>

\* src.unlink(missing_ok=True); if not ok: return 500
\* if running and current_mode() == "custom": stop_siren(); sleep; start_siren()
\* return ok
UploadFinish(t) ==
  /\ pc[t] = "up_unlink"
  /\ uploads' = uploads \ {loc[t].src}
  /\ IF ~loc[t].ok
       THEN /\ loc' = [loc EXCEPT ![t].result = "error500"]
            /\ pc' = [pc EXCEPT ![t] = "done"]
            /\ UNCHANGED ret
       ELSE /\ loc' = [loc EXCEPT ![t].was_running =
                          running /\ current_mode(current_mode_idx) = "custom"]
            /\ IF running /\ current_mode(current_mode_idx) = "custom"
                 THEN /\ pc' = [pc EXCEPT ![t] = "stop_enter"]
                      /\ ret' = [ret EXCEPT ![t] = <<"start_enter", "done">>]
                 ELSE /\ pc' = [pc EXCEPT ![t] = "done"]
                      /\ UNCHANGED ret
  /\ UNCHANGED <<synth, noting, current_mode_idx, play_proc, running, led, state_lock, announce_lock,
                 live, oneshot, custom_wav, calls, pre, serial>>

\* ----- announce -----
\* f = request.files.get("file"); if not f: return 400
announce(t, file) ==
  /\ t \in Requests
  /\ Begin(t)
  /\ IF ~file
       THEN /\ loc' = [loc EXCEPT ![t] = [Locals("announce") EXCEPT !.result = "error400"]]
            /\ pc' = [pc EXCEPT ![t] = "done"]
       ELSE /\ loc' = [loc EXCEPT ![t] = Locals("announce")]
            /\ pc' = [pc EXCEPT ![t] = "an_lock"]
  /\ UNCHANGED <<synth, noting, current_mode_idx, play_proc, running, led, state_lock, announce_lock,
                 live, oneshot, custom_wav, uploads, ret>>

\* announce without `with announce_lock`.
AnnounceLock_NoWait(t) ==
  /\ pc[t] = "an_lock"
  /\ announce_lock' = t
  /\ loc' = [loc EXCEPT ![t].was_running = running, ![t].paused = IF noting THEN LoopingMode ELSE "none"]
  /\ IF running
       THEN /\ pc' = [pc EXCEPT ![t] = "stop_enter"]
            /\ ret' = [ret EXCEPT ![t] = <<"an_save">>]
       ELSE /\ pc' = [pc EXCEPT ![t] = "an_save"]
            /\ UNCHANGED ret
  /\ UNCHANGED <<synth, noting, current_mode_idx, play_proc, running, led, state_lock, live, oneshot,
                 custom_wav, uploads, calls, pre, serial>>

\* with announce_lock: was_running = running; if was_running: stop_siren()
AnnounceLock(t) ==
  /\ pc[t] = "an_lock"
  /\ announce_lock = "free"
  /\ announce_lock' = t
  /\ loc' = [loc EXCEPT ![t].was_running = running, ![t].paused = IF noting THEN LoopingMode ELSE "none"]
  /\ IF running
       THEN /\ pc' = [pc EXCEPT ![t] = "stop_enter"]
            /\ ret' = [ret EXCEPT ![t] = <<"an_save">>]
       ELSE /\ pc' = [pc EXCEPT ![t] = "an_save"]
            /\ UNCHANGED ret
  /\ UNCHANGED <<synth, noting, current_mode_idx, play_proc, running, led, state_lock, live, oneshot,
                 custom_wav, uploads, calls, pre, serial>>

\* tmp, name, ext, src, wav; try: f.save(str(src))
\* name is the file name the request carries.
AnnounceSave(t, name) ==
  /\ pc[t] = "an_save"
  /\ LET ext == ExtOf(name)
         src == TmpPath("announce", ext)
         wav == TmpPath("announce", "wav")
     IN IF ~ValidSuffix(ext)
          THEN \* tmp.with_suffix(ext) raises ValueError, before the try block
               /\ Raised(t)
               /\ loc' = [loc EXCEPT ![t].result = "exception"]
               /\ UNCHANGED uploads
          ELSE /\ uploads' = uploads \cup {src}
               /\ UNCHANGED <<ret, announce_lock>>
               /\ \/ /\ loc' = [loc EXCEPT ![t].src = src, ![t].wav = wav]
                     /\ pc' = [pc EXCEPT ![t] = "an_convert"]
                  \/ \* f.save raises: on to the finally block
                     /\ loc' = [loc EXCEPT ![t].src = src, ![t].wav = wav, ![t].pending = "raise"]
                     /\ pc' = [pc EXCEPT ![t] = "an_cleanup"]
  /\ UNCHANGED <<synth, noting, current_mode_idx, play_proc, running, led, state_lock, live, oneshot,
                 custom_wav, calls, pre, serial>>

\* if not convert_to_wav(src, wav): return 500
\* ffmpeg refuses an output that is its input; a failing ffmpeg may have
\* created the output already; an ffmpeg that cannot be launched raises.
AnnounceConvert(t) ==
  /\ pc[t] = "an_convert"
  /\ \/ /\ loc[t].src \in uploads
        /\ loc[t].src # loc[t].wav
        /\ uploads' = uploads \cup {loc[t].wav}
        /\ pc' = [pc EXCEPT ![t] = "an_play"]
        /\ UNCHANGED loc
     \/ /\ \/ UNCHANGED uploads
           \/ /\ loc[t].src \in uploads
              /\ loc[t].src # loc[t].wav
              /\ uploads' = uploads \cup {loc[t].wav}
        /\ loc' = [loc EXCEPT ![t].pending = "return500"]
        /\ pc' = [pc EXCEPT ![t] = "an_cleanup"]
     \/ /\ loc' = [loc EXCEPT ![t].pending = "raise"]
        /\ pc' = [pc EXCEPT ![t] = "an_cleanup"]
        /\ UNCHANGED uploads
  /\ UNCHANGED <<synth, noting, current_mode_idx, play_proc, running, led, state_lock, announce_lock,
                 live, oneshot, custom_wav, calls, ret, pre, serial>>

\* ok = play_once_wav(wav): the blocking aplay starts, or cannot be launched
\* (subprocess.run raises; only CalledProcessError is caught).
AnnouncePlay(t) ==
  /\ pc[t] = "an_play"
  /\ \/ /\ oneshot' = oneshot \cup {t}
        /\ pc' = [pc EXCEPT ![t] = "an_playing"]
        /\ UNCHANGED loc
     \/ /\ loc' = [loc EXCEPT ![t].pending = "raise"]
        /\ pc' = [pc EXCEPT ![t] = "an_cleanup"]
        /\ UNCHANGED oneshot
  /\ UNCHANGED <<synth, noting, current_mode_idx, play_proc, running, led, state_lock, announce_lock,
                 live, custom_wav, uploads, calls, ret, pre, serial>>

\* the blocking aplay ends: exit 0 (True) or non-zero (False)
AnnouncePlayed(t) ==
  /\ pc[t] = "an_playing"
  /\ oneshot' = oneshot \ {t}
  /\ \E ok \in BOOLEAN : loc' = [loc EXCEPT ![t].ok = ok]
  /\ pc' = [pc EXCEPT ![t] = "an_cleanup"]
  /\ UNCHANGED <<synth, noting, current_mode_idx, play_proc, running, led, state_lock, announce_lock,
                 live, custom_wav, uploads, calls, ret, pre, serial>>

\* announce with the two unlinks after the try block instead of in a finally
\* block: they are skipped when the try block returns or raises.
AnnounceCleanup_NoFinally(t) ==
  /\ pc[t] = "an_cleanup"
  /\ CASE loc[t].pending = "raise" ->
            /\ Raised(t)
            /\ loc' = [loc EXCEPT ![t].result = "exception"]
            /\ UNCHANGED uploads
       [] loc[t].pending = "return500" ->
            /\ announce_lock' = "free"
            /\ pc' = [pc EXCEPT ![t] = "done"]
            /\ loc' = [loc EXCEPT ![t].result = "error500"]
            /\ UNCHANGED <<ret, uploads>>
       [] OTHER ->
            /\ uploads' = uploads \ {loc[t].src, loc[t].wav}
            /\ IF loc[t].was_running
                 THEN /\ pc' = [pc EXCEPT ![t] = "start_enter"]
                      /\ ret' = [ret EXCEPT ![t] = <<"an_return">>]
                 ELSE /\ pc' = [pc EXCEPT ![t] = "an_return"]
                      /\ UNCHANGED ret
            /\ UNCHANGED <<loc, announce_lock>>
  /\ UNCHANGED <<synth, noting, current_mode_idx, play_proc, running, led, state_lock, live, oneshot,
                 custom_wav, calls, pre, serial>>

\* announce starting the loop after the announcement whether or not one was
\* playing before.
AnnounceCleanup_AlwaysResume(t) ==
  /\ pc[t] = "an_cleanup"
  /\ uploads' = uploads \ {loc[t].src, loc[t].wav}
  /\ CASE loc[t].pending = "raise" ->
            /\ Raised(t)
            /\ loc' = [loc EXCEPT ![t].result = "exception"]
       [] loc[t].pending = "return500" ->
            /\ announce_lock' = "free"
            /\ pc' = [pc EXCEPT ![t] = "done"]
            /\ loc' = [loc EXCEPT ![t].result = "error500"]
            /\ UNCHANGED ret
       [] OTHER ->
            /\ pc' = [pc EXCEPT ![t] = "start_enter"]
            /\ ret' = [ret EXCEPT ![t] = <<"an_return">>]
            /\ UNCHANGED <<loc, announce_lock>>
  /\ UNCHANGED <<synth, noting, current_mode_idx, play_proc, running, led, state_lock, live, oneshot,
                 custom_wav, calls, pre, serial>>

\* finally: src.unlink(missing_ok=True); wav.unlink(missing_ok=True)
\* then what the try block decided: the pending exception, the pending
\* return of 500, or on to: if was_running: start_siren()
AnnounceCleanup(t) ==
  /\ pc[t] = "an_cleanup"
  /\ uploads' = uploads \ {loc[t].src, loc[t].wav}
  /\ CASE loc[t].pending = "raise" ->
            /\ Raised(t)
            /\ loc' = [loc EXCEPT ![t].result = "exception"]
       [] loc[t].pending = "return500" ->
            /\ announce_lock' = "free"
            /\ pc' = [pc EXCEPT ![t] = "done"]
            /\ loc' = [loc EXCEPT ![t].result = "error500"]
            /\ UNCHANGED ret
       [] OTHER ->
            /\ IF loc[t].was_running
                 THEN /\ pc' = [pc EXCEPT ![t] = "start_enter"]
                      /\ ret' = [ret EXCEPT ![t] = <<"an_return">>]
                 ELSE /\ pc' = [pc EXCEPT ![t] = "an_return"]
                      /\ UNCHANGED ret
            /\ UNCHANGED <<loc, announce_lock>>
  /\ UNCHANGED <<synth, noting, current_mode_idx, play_proc, running, led, state_lock, live, oneshot,
                 custom_wav, calls, pre, serial>>

\* return jsonify({"ok": bool(ok)}), leaving the with block
AnnounceReturn(t) ==
  /\ pc[t] = "an_return"
  /\ announce_lock' = "free"
  /\ loc' = [loc EXCEPT ![t].result = IF loc[t].ok THEN "ok" ELSE "failed"]
  /\ pc' = [pc EXCEPT ![t] = "done"]
  /\ UNCHANGED <<synth, noting, current_mode_idx, play_proc, running, led, state_lock, live, oneshot,
                 custom_wav, uploads, calls, ret, pre, serial>>

\* ----- the environment -----
\* A looping aplay exits on its own (its --loop count ran out, the audio
\* device failed): the controller is not told.
PlayerExit(p) ==
  /\ p \in live
  /\ live' = live \ {p}
  /\ UNCHANGED <<synth, noting, current_mode_idx, play_proc, running, led, state_lock, announce_lock,
                 oneshot, custom_wav, uploads, calls, pc, ret, loc, pre, serial>>

\* if __name__ == "__main__": ... app.run(...): the controller process ends
\* (app.run returns on an interrupt, or the process is terminated).  Its
\* threads are daemon threads and end with it, wherever they are; nothing
\* runs at exit (no handler, no atexit hook, no finally around app.run).  A
\* looping player was started with preexec_fn=os.setsid: it is in a session
\* and process group of its own and gets no signal with the controller.  The
\* globals keep the values they had at the exit, files stay as they are.
Shutdown ==
  /\ \E t \in Threads : pc[t] # "exited"
  /\ pc' = [t \in Threads |-> "exited"]
  /\ ret' = [t \in Threads |-> <<>>]
  /\ loc' = [t \in Threads |-> NoLocals]
  /\ pre' = [t \in Threads |-> NoPre]
  /\ UNCHANGED <<synth, noting, current_mode_idx, play_proc, running, led, state_lock, announce_lock,
                 live, oneshot, custom_wav, uploads, calls, serial>>

Next ==
  \/ Shutdown
  \/ \E t \in Threads :
       \/ CallStart(t) \/ CallStop(t) \/ toggle_siren(t) \/ next_mode(t)
       \/ NextModeStore(t) \/ NextModeCheck(t)
       \/ StartEnter(t) \/ StartSpawn(t) \/ StartFinish(t)
       \/ StopEnter(t) \/ StopKill(t) \/ StopFinish(t)
       \/ \E name \in FileNames \cup {NoFile} : upload_audio(t, name)
       \/ \E file \in BOOLEAN : announce(t, file)
       \/ UploadConvert(t) \/ UploadFfmpegExit(t) \/ UploadFinish(t)
       \/ AnnounceLock(t) \/ (\E name \in FileNames : AnnounceSave(t, name))
       \/ AnnounceConvert(t) \/ AnnouncePlay(t)
       \/ AnnouncePlayed(t) \/ AnnounceCleanup(t) \/ AnnounceReturn(t)
       \/ Finish(t)
  \/ \E p \in live : PlayerExit(p)

\* Any number of callers at once.
Spec == Init /\ [][Next]_vars

\* A step of thread t inside a call: everything but the arrival of a new call.
Step(t) ==
  \/ NextModeStore(t) \/ NextModeCheck(t)
  \/ StartEnter(t) \/ StartSpawn(t) \/ StartFinish(t)
  \/ StopEnter(t) \/ StopKill(t) \/ StopFinish(t)
  \/ UploadConvert(t) \/ UploadFfmpegExit(t) \/ UploadFinish(t)
  \/ AnnounceLock(t) \/ (\E name \in FileNames : AnnounceSave(t, name))
  \/ AnnounceConvert(t) \/ AnnouncePlay(t)
  \/ AnnouncePlayed(t) \/ AnnounceCleanup(t) \/ AnnounceReturn(t)
  \/ Finish(t)

\* Fair scheduling: a thread that can take a step does not wait for ever, and
\* every external call (ffmpeg, the blocking aplay) returns.  The calls of a
\* behaviour are finitely many, so a lock a thread waits for is in the end
\* free for good, and weak fairness is enough to hand it over.
FairSpec == Init /\ [][Next]_vars /\ \A t \in Threads : WF_vars(Step(t))

\* Any number of callers at once, every announce() noting the mode of the
\* loop it pauses.
InitNoting ==
  /\ current_mode_idx = 0
  /\ play_proc = None
  /\ running = FALSE
  /\ led = FALSE
  /\ state_lock = "free"
  /\ announce_lock = "free"
  /\ live = {}
  /\ oneshot = {}
  /\ custom_wav = Placeholder
  /\ uploads = {}
  /\ calls = 0
  /\ pc = [t \in Threads |-> "idle"]
  /\ ret = [t \in Threads |-> <<>>]
  /\ loc = [t \in Threads |-> NoLocals]
  /\ pre = [t \in Threads |-> NoPre]
  /\ serial = FALSE
  /\ noting = TRUE
  /\ synth = NoSynth

NotingSpec == InitNoting /\ [][Next]_vars

\* The callers take turns: the setting of what is said of one call with no
\* other control operation interleaved.  Players still exit when they like.
InitSerial ==
  /\ current_mode_idx = 0
  /\ play_proc = None
  /\ running = FALSE
  /\ led = FALSE
  /\ state_lock = "free"
  /\ announce_lock = "free"
  /\ live = {}
  /\ oneshot = {}
  /\ custom_wav = Placeholder
  /\ uploads = {}
  /\ calls = 0
  /\ pc = [t \in Threads |-> "idle"]
  /\ ret = [t \in Threads |-> <<>>]
  /\ loc = [t \in Threads |-> NoLocals]
  /\ pre = [t \in Threads |-> NoPre]
  /\ serial = TRUE
  /\ noting = FALSE
  /\ synth = NoSynth

SerialSpec == InitSerial /\ [][Next]_vars

\* ----- make_pattern_wav -----
SAMPLE_RATE == 44100
BITS == 16
CHANNELS == 2
\* The width of one sample as written: (0).to_bytes(2, ...), int.to_bytes(val, 2, ...)
SampleBytes == 2

\* Segments of a pattern given to make_pattern_wav, at most this many.
MaxSegments == 3

\* Durations in seconds, as fractions num/den: nothing, one sample, a sample
\* and a half, two samples.
Seconds == { [num |-> 0, den |-> 1], [num |-> 1, den |-> SAMPLE_RATE],
             [num |-> 3, den |-> 2 * SAMPLE_RATE], [num |-> 2, den |-> SAMPLE_RATE] }

\* (kind, seconds, f0, f1); the frequencies set the value of a sample, not
\* how many there are, and are left out.
Segments == [kind : {"silence", "tone", "sweep"}, seconds : Seconds]
Patterns == UNION { [1..m -> Segments] : m \in 0..MaxSegments }

\* int(x) for x = num/den, den > 0: towards zero.
int(num, den) == IF num >= 0 THEN num \div den ELSE -((-num) \div den)

\* max(1, n-1)
max(a, b) == IF b > a THEN b ELSE a

\* Where the call of make_pattern_wav is.
SynthPc(at) == synth.pc = at

\* for kind, seconds, f0, f1 in pattern: n = int(seconds * SAMPLE_RATE)
\* The next segment, or the end of the loop.
PatternSegment ==
  /\ SynthPc("segment")
  /\ IF synth.k < Len(synth.pattern)
       THEN LET seg == synth.pattern[synth.k + 1]
            IN synth' = [synth EXCEPT
                           !.k = synth.k + 1,
                           !.n = int(seg.seconds.num * SAMPLE_RATE, seg.seconds.den),
                           !.i = 0,
                           !.pc = IF seg.kind = "silence" THEN "silence" ELSE "sample"]
       ELSE synth' = [synth EXCEPT !.pc = "write"]
  /\ UNCHANGED <<current_mode_idx, play_proc, running, led, state_lock, announce_lock,
                 live, oneshot, custom_wav, uploads, calls, pc, ret, loc, pre, serial, noting>>

\* z = (0).to_bytes(2, "little", signed=True)
\* for _ in range(n): frames.extend(z + z)
\* continue
PatternSilence ==
  /\ SynthPc("silence")
  /\ IF synth.i < synth.n
       THEN synth' = [synth EXCEPT !.frames = synth.frames + SampleBytes + SampleBytes,
                                   !.i = synth.i + 1]
       ELSE synth' = [synth EXCEPT !.pc = "segment"]
  /\ UNCHANGED <<current_mode_idx, play_proc, running, led, state_lock, announce_lock,
                 live, oneshot, custom_wav, uploads, calls, pc, ret, loc, pre, serial, noting>>

\* make_pattern_wav dividing by n-1 instead of max(1, n-1).
PatternSample_NoMax ==
  /\ SynthPc("sample")
  /\ IF synth.i < synth.n
       THEN IF synth.pattern[synth.k].kind # "tone" /\ synth.n - 1 = 0
              THEN synth' = [synth EXCEPT !.pc = "raised"]
              ELSE synth' = [synth EXCEPT !.frames = synth.frames + SampleBytes + SampleBytes,
                                          !.i = synth.i + 1]
       ELSE synth' = [synth EXCEPT !.pc = "segment"]
  /\ UNCHANGED <<current_mode_idx, play_proc, running, led, state_lock, announce_lock,
                 live, oneshot, custom_wav, uploads, calls, pc, ret, loc, pre, serial, noting>>

\* for i in range(n):
\*   freq = f0 if kind == "tone" else (f0 + (f1 - f0) * (i / max(1, n-1)))
\*   val = ...; s = int.to_bytes(val, 2, "little", signed=True); frames.extend(s + s)
\* The division raises ZeroDivisionError for a divisor of 0; |val| is at
\* most max_amp, which fits two bytes.
PatternSample ==
  /\ SynthPc("sample")
  /\ IF synth.i < synth.n
       THEN IF synth.pattern[synth.k].kind # "tone" /\ max(1, synth.n - 1) = 0
              THEN synth' = [synth EXCEPT !.pc = "raised"]
              ELSE synth' = [synth EXCEPT !.frames = synth.frames + SampleBytes + SampleBytes,
                                          !.i = synth.i + 1]
       ELSE synth' = [synth EXCEPT !.pc = "segment"]
  /\ UNCHANGED <<current_mode_idx, play_proc, running, led, state_lock, announce_lock,
                 live, oneshot, custom_wav, uploads, calls, pc, ret, loc, pre, serial, noting>>

\* with wave.open(str(path), "wb") as wf: setnchannels(CHANNELS);
\* setsampwidth(BITS // 8); setframerate(SAMPLE_RATE); writeframes(frames)
\* The wave module counts len(frames) // (sampwidth * nchannels) frames.
PatternWrite ==
  /\ SynthPc("write")
  /\ synth' = [synth EXCEPT
                 !.file = [nchannels |-> CHANNELS, sampwidth |-> BITS \div 8,
                           framerate |-> SAMPLE_RATE,
                           nframes |-> synth.frames \div ((BITS \div 8) * CHANNELS)],
                 !.pc = "done"]
  /\ UNCHANGED <<current_mode_idx, play_proc, running, led, state_lock, announce_lock,
                 live, oneshot, custom_wav, uploads, calls, pc, ret, loc, pre, serial, noting>>

make_pattern_wav == PatternSegment \/ PatternSilence \/ PatternSample \/ PatternWrite

\* make_pattern_wav(path, pattern) is called with any pattern; the
\* controller does nothing meanwhile.
InitPattern ==
  /\ current_mode_idx = 0
  /\ play_proc = None
  /\ running = FALSE
  /\ led = FALSE
  /\ state_lock = "free"
  /\ announce_lock = "free"
  /\ live = {}
  /\ oneshot = {}
  /\ custom_wav = Absent
  /\ uploads = {}
  /\ calls = 0
  /\ pc = [t \in Threads |-> "idle"]
  /\ ret = [t \in Threads |-> <<>>]
  /\ loc = [t \in Threads |-> NoLocals]
  /\ pre = [t \in Threads |-> NoPre]
  /\ serial = FALSE
  /\ noting = FALSE
  /\ \E p \in Patterns : synth = [NoSynth EXCEPT !.pc = "segment", !.pattern = p]

PatternSpec == InitPattern /\ [][make_pattern_wav]_vars

\* ----- what is checked -----
\* Thread t's call of op has ended and its response is not yet sent.
Ended(t, op) == pc[t] = "done" /\ loc[t].op = op

\* The state a call began in (callers taking turns).
BeganIdle(t) == ~pre[t].running /\ pre[t].play_proc = None
BeganLooping(t) == pre[t].running /\ pre[t].play_proc # None

\* The controller process has ended.
Exited == \A t \in Threads : pc[t] = "exited"

\* Temp files of announce() in UPLOADS_DIR.
AnnounceFiles == {f \in uploads : f.prefix = "announce"}

\* Threads inside announce()'s stop -> transcode -> play-once -> resume sequence.
Announcing == {t \in Threads : loc[t].op = "announce" /\ pc[t] \notin {"idle", "an_lock", "done"}}

\* C1: under any interleaving of the callers, at most one looping player is
\* alive at any instant, every live player is the one play_proc refers to (no
\* leaked handle), and when a stop_siren that found the loop running is about
\* to return (it still holds the lock) no looping player is alive.
C1_AtMostOnePlayer ==
  /\ Cardinality(live) <= 1
  /\ live \subseteq {play_proc}
  /\ \A t \in Threads : pc[t] = "stop_finish" => live = {}

\* A stop call killed a live player and returned, with none alive, while
\* another call was in flight.
C1_Witness ==
  \E t \in Threads :
    /\ Ended(t, "stop") /\ loc[t].stopped = "killed" /\ live = {}
    /\ \E u \in Others(t) : pc[u] \notin {"idle", "done"}

\* C2: an announce() that began in Looping(m), alone, and ended by a failed
\* transcode, a failed one-shot playback or a success, leaves the state
\* Looping(m): running, with a handle on a player of m's asset.
C2_AnnounceResumesLoop ==
  \A t \in Threads :
    (Ended(t, "announce") /\ BeganLooping(t) /\ loc[t].result \in {"error500", "failed", "ok"})
      => /\ Looping
         /\ play_proc.wav = pre[t].play_proc.wav

\* C3: every temp file of announce() in UPLOADS_DIR is the saved upload or the
\* transcoded WAV of the call that holds announce_lock now: once a call has
\* returned or raised, which releases the lock, its temp files are gone.
C3_TempFilesDeleted ==
  /\ announce_lock = "free" => AnnounceFiles = {}
  /\ ~Exited =>
       \A f \in AnnounceFiles :
         \E u \in Threads : announce_lock = u /\ pc[u] # "done" /\ f \in {loc[u].src, loc[u].wav}

\* An announce() that saved its upload, transcoded it and played it has
\* returned, and neither file is left.
C3_Witness ==
  \E t \in Threads :
    /\ Ended(t, "announce") /\ loc[t].result = "ok"
    /\ loc[t].src # NoPath /\ loc[t].src # loc[t].wav
    /\ AnnounceFiles = {}

\* C4: while an announce() that began in Idle, alone, runs and when it has
\* ended, the state is Idle: no player was spawned, none is alive, the LED
\* is off.
C4_AnnounceFromIdle ==
  \A t \in Threads :
    (loc[t].op = "announce" /\ BeganIdle(t))
      => Idle /\ ~led /\ live = {} /\ ~loc[t].spawned

\* An announce() that began in Idle has played its file and returned ok.
C4_Witness ==
  \E t \in Threads : Ended(t, "announce") /\ BeganIdle(t) /\ loc[t].result = "ok"

\* The mode after one next_mode() of a call that began at pre[t].idx.
NewMode(t) == current_mode((pre[t].idx + 1) % Len(MODE_NAMES))

\* C5 as stated: next_mode() from Idle spawns nothing and leaves Idle; from
\* Looping it leaves Looping on the new mode, with another player than before.
C5_SwitchModeAsStated ==
  \A t \in Threads :
    Ended(t, "next_mode") =>
      /\ BeganIdle(t) => Idle /\ ~loc[t].spawned /\ live = {}
      /\ BeganLooping(t) =>
           /\ Looping
           /\ play_proc # pre[t].play_proc
           /\ play_proc.wav = wav_for_mode(NewMode(t))
           /\ current_mode(current_mode_idx) = NewMode(t)

\* C5 as amended: the same, except that a next_mode() from Looping whose
\* start_siren() could not spawn the player raises and leaves Idle on the
\* new mode.
C5_SwitchMode ==
  \A t \in Threads :
    Ended(t, "next_mode") =>
      /\ BeganIdle(t) => Idle /\ ~loc[t].spawned /\ live = {}
      /\ (BeganLooping(t) /\ loc[t].result # "exception") =>
           /\ Looping
           /\ play_proc # pre[t].play_proc
           /\ loc[t].spawned
           /\ play_proc.wav = wav_for_mode(NewMode(t))
           /\ current_mode(current_mode_idx) = NewMode(t)
      /\ (BeganLooping(t) /\ loc[t].result = "exception") =>
           /\ Idle
           /\ live = {}
           /\ current_mode(current_mode_idx) = NewMode(t)

\* A next_mode() that began in Looping has returned normally.
C5_Witness ==
  \E t \in Threads : Ended(t, "next_mode") /\ BeganLooping(t) /\ loc[t].result = "ok"

\* C6: a call (alone) whose start_siren() could not spawn the player leaves
\* Idle: running false, no handle, LED off, no player alive, state_lock free.
C6_SpawnFailureLeavesIdle ==
  \A t \in Threads :
    (pc[t] = "done" /\ loc[t].op \in {"start", "toggle", "next_mode"}
       /\ loc[t].result = "exception")
      => /\ ~running
         /\ play_proc = None
         /\ ~led
         /\ live = {}
         /\ state_lock = "free"
         /\ ~loc[t].spawned

\* A start call from Idle has ended with the spawn failure.
C6_Witness ==
  \E t \in Threads : Ended(t, "start") /\ BeganIdle(t) /\ loc[t].result = "exception"

\* C7: a stop (alone) that found the loop running and its player gone returns
\* normally and leaves Idle: handle cleared, running false, LED off.
C7_KillFailureSwallowed ==
  \A t \in Threads :
    (pc[t] = "done" /\ loc[t].op \in {"stop", "toggle"} /\ loc[t].stopped = "gone")
      => /\ loc[t].result = "ok"
         /\ ~running
         /\ play_proc = None
         /\ ~led
         /\ state_lock = "free"

\* A stop call that began in Looping found the player gone and has returned.
C7_Witness ==
  \E t \in Threads : Ended(t, "stop") /\ BeganLooping(t) /\ loc[t].stopped = "gone"

\* C8: an upload (alone) whose transcode failed leaves custom.wav as it was
\* when the call began, and custom.wav is never half-written.
C8_UploadLeavesAssetIntact ==
  /\ \A t \in Threads :
       (Ended(t, "upload") /\ loc[t].result = "error500") => custom_wav = pre[t].custom
  /\ custom_wav # Partial

\* C9: at most one thread is inside announce()'s sequence, and it holds
\* announce_lock, whatever the other callers do.
C9_OneAnnouncement ==
  /\ Cardinality(Announcing) <= 1
  /\ \A t \in Announcing : announce_lock = t

\* One announcement is playing, a second announce() waits for the lock, and
\* the button thread is in the middle of a toggle.
C9_Witness ==
  \E t, u, v \in Threads :
    /\ pc[t] = "an_playing"
    /\ pc[u] = "an_lock"
    /\ loc[v].op = "toggle" /\ pc[v] \notin {"idle", "done"}

\* C10: an announce() whose one-shot playback succeeded reports ok, also
\* when the resume of the loop failed.
C10_ResultIsPlaybackOutcome ==
  \A t \in Threads :
    (Ended(t, "announce") /\ loc[t].ok) => loc[t].result = "ok"

\* C11: when the controller process has shut down in Looping, no looping
\* player is alive: the shutdown terminates the child.
C11_ShutdownKillsPlayer ==
  (Exited /\ Looping) => live = {}

\* floor(duration * sampleRate) summed over the segments of a pattern.
RECURSIVE SumFrames(_)
SumFrames(pattern) ==
  IF pattern = <<>> THEN 0
  ELSE (Head(pattern).seconds.num * SAMPLE_RATE) \div Head(pattern).seconds.den
         + SumFrames(Tail(pattern))

\* C12: for every pattern make_pattern_wav ends by writing a file whose
\* number of frames is the sum over the segments of floor(duration *
\* sampleRate), every frame being one sample for each channel.
C12_FrameCount ==
  synth.pc \in {"done", "raised"} =>
    /\ synth.pc = "done"
    /\ synth.file.nframes = SumFrames(synth.pattern)
    /\ synth.frames = synth.file.nframes * synth.file.nchannels * synth.file.sampwidth

\* A pattern of a single-sample sweep, an empty silence and a two-sample tone
\* has been written.
C12_Witness ==
  /\ synth.pc = "done"
  /\ Len(synth.pattern) = 3
  /\ synth.pattern[1].kind = "sweep" /\ synth.pattern[1].seconds.num = 1
  /\ synth.pattern[2].kind = "silence" /\ synth.pattern[2].seconds.num = 0
  /\ synth.pattern[3].kind = "tone" /\ synth.pattern[3].seconds.num = 2
  /\ synth.file.nframes = 3

\* C13: the index is always in [0, len(MODE_NAMES)), and every next_mode(),
\* at the step that stores the index, moves it on by exactly one position,
\* cyclically, whatever other callers do meanwhile (so that k calls move
\* it on by k).
C13_AdvanceByOne ==
  /\ [](current_mode_idx \in 0..(Len(MODE_NAMES) - 1))
  /\ [][\A t \in Threads :
          (pc[t] = "nm_store" /\ pc'[t] = "nm_check")
            => current_mode_idx' = (current_mode_idx + 1) % Len(MODE_NAMES)]_vars

\* C14: whatever the other callers do, a toggle_siren() that has returned
\* has started a loop (it found running false under the lock and spawned the
\* player) or has stopped one (it found running true under the lock and
\* cleared the handle): it never returns having done nothing.
C14_ToggleActs ==
  \A t \in Threads :
    (Ended(t, "toggle") /\ loc[t].result = "ok")
      => \/ loc[t].spawned
         \/ loc[t].stopped \in {"killed", "gone"}

\* C15: the loop announce() starts at its end plays the asset of the loop it
\* paused at its beginning, also when next_mode() was called in between.
\* (At start_finish the call holds state_lock and play_proc is the player it
\* has just spawned.)
C15_ResumesPausedMode ==
  \A t \in Threads :
    (loc[t].op = "announce" /\ pc[t] = "start_finish" /\ loc[t].paused # "none")
      => play_proc.wav = wav_for_mode(loc[t].paused)

\* The call of t began in Looping(custom).
BeganLoopingCustom(t) == BeganLooping(t) /\ current_mode(pre[t].idx) = "custom"

\* What an upload whose transcode succeeded leaves when the state was not
\* Looping(custom): running, the handle and the mode as they were, nothing
\* stopped or spawned.
UploadLeftPlaybackAlone(t) ==
  /\ running = pre[t].running
  /\ play_proc = pre[t].play_proc
  /\ current_mode_idx = pre[t].idx
  /\ ~loc[t].spawned
  /\ loc[t].stopped = "none"

\* C16 as stated: an upload (alone) whose transcode succeeded, from
\* Looping(custom), ends in Looping(custom) with another player than before;
\* from any other state it leaves the playback state, the handle and the mode
\* as they were.
C16_UploadAsStated ==
  \A t \in Threads :
    (Ended(t, "upload") /\ loc[t].ok) =>
      IF BeganLoopingCustom(t)
        THEN /\ Looping
             /\ loc[t].spawned
             /\ play_proc # pre[t].play_proc
             /\ play_proc.wav = wav_for_mode("custom")
             /\ current_mode_idx = pre[t].idx
        ELSE UploadLeftPlaybackAlone(t)

\* C16 as amended: the same, except that an upload from Looping(custom) whose
\* start_siren() could not spawn the player raises and leaves Idle on custom.
C16_UploadRestartsCustomLoop ==
  \A t \in Threads :
    (Ended(t, "upload") /\ loc[t].ok) =>
      IF BeganLoopingCustom(t)
        THEN /\ current_mode_idx = pre[t].idx
             /\ loc[t].stopped \in {"killed", "gone"}
             /\ IF loc[t].result = "exception"
                  THEN Idle /\ live = {} /\ ~loc[t].spawned
                  ELSE /\ loc[t].result = "ok"
                       /\ Looping
                       /\ loc[t].spawned
                       /\ play_proc # pre[t].play_proc
                       /\ play_proc.wav = wav_for_mode("custom")
        ELSE loc[t].result = "ok" /\ UploadLeftPlaybackAlone(t)

\* An upload that began in Looping(custom) has been accepted and has
\* returned with the loop restarted.
C16_Witness ==
  \E t \in Threads :
    /\ Ended(t, "upload") /\ loc[t].ok /\ loc[t].result = "ok"
    /\ BeganLoopingCustom(t) /\ loc[t].spawned

\* Threads in the middle of a call.
InFlight == {t \in Threads : pc[t] \notin {"idle", "done", "exited"}}

\* C17: no thread takes announce_lock while it holds state_lock; in no state
\* are the calls in flight all stuck (some thread in a call can take a step);
\* and under fair scheduling every call in flight comes to its end, unless
\* the controller process ends first.
C17_LockOrderAndProgress ==
  /\ [][\A t \in Threads :
          (announce_lock # t /\ announce_lock' = t) => (state_lock # t /\ state_lock' # t)]_vars
  /\ [](InFlight # {} => \E t \in InFlight : ENABLED Step(t))
  /\ \A t \in Threads : (t \in InFlight) ~> (pc[t] \in {"done", "exited"})

\* An announce() that holds announce_lock waits for state_lock, which a
\* toggle holds in its critical section.
C17_Witness ==
  \E t, u \in Threads :
    /\ announce_lock = t /\ pc[t] \in {"start_enter", "stop_enter"}
    /\ state_lock = u /\ u # t /\ loc[u].op = "toggle"

\* C18: while the blocking aplay of an announcement plays, no looping player
\* is alive, whatever calls arrive meanwhile.
C18_NoLoopDuringAnnouncement ==
  oneshot # {} => live = {}

\* No call is in flight: every thread is idle or has its response ready.
Quiescent == \A t \in Threads : pc[t] \in {"idle", "done"}

\* C19: when the state is Looping and no call is in flight, the player
\* play_proc refers to plays the asset of the current mode, the mode
\* status() reports.
C19_PlaysCurrentMode ==
  (Looping /\ Quiescent) => play_proc.wav = wav_for_mode(current_mode(current_mode_idx))

\* C20: whenever state_lock is free, running is set exactly when play_proc
\* holds a handle and exactly when the LED is on.
C20_StateAgrees ==
  state_lock = "free" =>
    /\ running <=> (play_proc # None)
    /\ running <=> led

\* The lock is free, the loop is running with its handle and the LED on,
\* after a toggle that started a loop, while the two other threads are in
\* the middle of calls.
C20_Witness ==
  /\ state_lock = "free" /\ running /\ play_proc # None /\ led
  /\ \E t, u, v \in Threads :
       /\ Ended(t, "toggle") /\ loc[t].spawned
       /\ u # t /\ v # t /\ u # v
       /\ pc[u] \notin {"idle", "done", "exited"}
       /\ pc[v] \notin {"idle", "done", "exited"}

=============================================================================
